---- MODULE Spec2Model ----
(***************************************************************************)
(* A model of kak-tree-sitter's translation core:                          *)
(*   - ByteLineColMapper and KakHighlightRange::from_iter (highlighting.rs)*)
(*   - IndentGuidelines::to_kak_replace_hl_str (indent_guidelines.rs)      *)
(*   - UnixRequest::with_session (server/request.rs)                       *)
(* Each component has its own specification over the shared variables; the *)
(* variables a specification does not use stay at their idle values.       *)
(***************************************************************************)
EXTENDS Integers, Sequences, FiniteSets, TLC

VARIABLES
  source,     \* the text: a sequence of characters (&str)
  mapper,     \* ByteLineColMapper { chars, byte_idx, line, col, change_line }
  tils,       \* the targets `advance` has been called with, in call order
  hl_names,   \* from_iter's face table (&[&str])
  hl_events,  \* the events the hl_events iterator has yielded so far
  faces,      \* from_iter's local stack `faces`
  kak_hls,    \* from_iter's local output vector `kak_hls`
  pc,         \* where the running function is: "idle", "run", "done", "panic"
  lines,      \* IndentGuidelines.lines
  f,          \* the Formatter of each rendering function, by function
  called,     \* the rendering functions that have been called
  req,        \* a UnixRequest value
  prev_req,   \* the request the last with_session call was applied to
  names,      \* the names with_session has been called with, in call order
  steps,      \* the operations send has performed, each with its outcome
  wire,       \* what the socket endpoint has received from send
  result,     \* the value a finished function returned; "none" before
  files       \* the files of the directory given to load_from_dir

vars == <<source, mapper, tils, hl_names, hl_events, faces, kak_hls, pc,
          lines, f, called, req, prev_req, names, steps, wire, result, files>>

(***************************************************************************)
(* Bounds of the model.                                                    *)
(***************************************************************************)
\* characters in a source text given to a bare mapper
MaxChars == 3
\* calls of advance on one mapper
MaxCalls == 3

(***************************************************************************)
(* Text.  A character is a one-character string; "U2" stands for one       *)
(* character whose UTF-8 encoding takes two bytes (such as U+00E9).        *)
(***************************************************************************)
NL == "\n"

Alphabet == {"a", NL, "U2"}

\* char::len_utf8
Utf8Len(c) == IF c = "U2" THEN 2 ELSE 1

\* all sequences over S of length lo..hi
SeqsOf(S, lo, hi) == UNION {[1..n -> S] : n \in lo..hi}

RECURSIVE ByteLen(_)
\* str::len: the length of the text in bytes
ByteLen(s) == IF s = <<>> THEN 0 ELSE Utf8Len(Head(s)) + ByteLen(Tail(s))

\* byte offset of the first byte of the i-th character (1-based i)
Offset(s, i) == ByteLen(SubSeq(s, 1, i - 1))

\* str::char_indices: the (byte offset, character) pairs of the text
CharIndices(s) == [i \in 1..Len(s) |-> <<Offset(s, i), s[i]>>]

(***************************************************************************)
(* ByteLineColMapper                                                       *)
(***************************************************************************)
\* ByteLineColMapper::new: the first item of the iterator is consumed
MapperNew(chars) ==
  [chars       |-> IF chars = <<>> THEN <<>> ELSE Tail(chars),
   byte_idx    |-> 0,
   line        |-> 1,
   col         |-> 1,
   change_line |-> FALSE]

\* one iteration of advance's loop that reads a character (idx, c)
MapperRead(m) ==
  LET idx  == Head(m.chars)[1]
      c    == Head(m.chars)[2]
      line == IF m.change_line THEN m.line + 1 ELSE m.line
      col  == IF m.change_line THEN 0 ELSE m.col
  IN  [chars       |-> Tail(m.chars),
       byte_idx    |-> idx,
       line        |-> line,
       change_line |-> (c = NL),
       col         |-> col + 1]

RECURSIVE MapperAdvanceReadsFirst(_, _)
\* a slip of MapperAdvance: the target is tested after a character is read
MapperAdvanceReadsFirst(m, til) ==
  IF m.chars = <<>> THEN m
  ELSE LET m1 == MapperRead(m)
       IN  IF m1.byte_idx >= til THEN m1 ELSE MapperAdvanceReadsFirst(m1, til)

RECURSIVE MapperAdvance(_, _)
\* ByteLineColMapper::advance
MapperAdvance(m, til) ==
  IF m.byte_idx >= til THEN m
  ELSE IF m.chars = <<>> THEN m
  ELSE MapperAdvance(MapperRead(m), til)

(***************************************************************************)
(* Idle values of the variables a specification does not use.              *)
(***************************************************************************)
IdleMapper == MapperNew(<<>>)

IdleHL == /\ hl_names = <<>>
          /\ hl_events = <<>>
          /\ faces = <<>>
          /\ kak_hls = <<>>

IdleIndent == lines = <<>> /\ f = <<>> /\ called = {}

IdleReq == /\ req = [type |-> "Shutdown"]
           /\ prev_req = [type |-> "Shutdown"]
           /\ names = <<>>

IdleIO == steps = <<>> /\ wire = <<>> /\ result = "none" /\ files = <<>>

(***************************************************************************)
(* SpecMapper: a mapper over a text, advanced by a caller.                 *)
(***************************************************************************)
InitMapper ==
  /\ source \in SeqsOf(Alphabet, 0, MaxChars)
  /\ mapper = MapperNew(CharIndices(source))
  /\ tils = <<>>
  /\ pc = "idle"
  /\ IdleHL /\ IdleIndent /\ IdleReq /\ IdleIO

\* a call mapper.advance(til)
AdvanceCall(til) ==
  /\ Len(tils) < MaxCalls
  /\ mapper' = MapperAdvance(mapper, til)
  /\ tils' = Append(tils, til)
  /\ UNCHANGED <<source, hl_names, hl_events, faces, kak_hls, pc,
                 lines, f, called, req, prev_req, names,
                 steps, wire, result, files>>

NextMapper == \E til \in 0..(ByteLen(source) + 1) : AdvanceCall(til)

SpecMapper == InitMapper /\ [][NextMapper]_vars

(***************************************************************************)
(* Reference positions, counted directly on the text.                      *)
(***************************************************************************)
\* the character offsets of the text
CharOffsets(s) == {Offset(s, i) : i \in 1..Len(s)}

\* index of the character that contains byte b
CharAt(s, b) ==
  CHOOSE i \in 1..Len(s) : Offset(s, i) <= b /\ b < Offset(s, i) + Utf8Len(s[i])

\* indices of the '\n' characters at byte offsets below b
NewlinesBelow(s, b) == {i \in 1..Len(s) : s[i] = NL /\ Offset(s, i) < b}

\* 1-based line of the character at index k
LineOf(s, k) == 1 + Cardinality({i \in 1..(k - 1) : s[i] = NL})

\* 1-based column of the character at index k, in characters
ColOf(s, k) ==
  LET nls  == {i \in 1..(k - 1) : s[i] = NL}
      last == IF nls = {} THEN 0 ELSE CHOOSE i \in nls : \A j \in nls : j <= i
  IN  k - last

NonDecreasing(q) == \A i \in 1..(Len(q) - 1) : q[i] <= q[i + 1]

\* C1: after advance(target), for non-decreasing targets that are byte
\* offsets of characters, line = 1 + the number of '\n' below target and
\* column = 1 + the number of characters between the last such '\n' (or the
\* start) and the character at target; a fresh mapper reports line 1, col 1.
C1_LineColOfTarget ==
  /\ tils = <<>> => (mapper.line = 1 /\ mapper.col = 1)
  /\ (/\ tils # <<>>
      /\ NonDecreasing(tils)
      /\ \A i \in 1..Len(tils) : tils[i] \in CharOffsets(source))
     => LET t == tils[Len(tils)]
            k == CharAt(source, t)
        IN  /\ mapper.line = 1 + Cardinality(NewlinesBelow(source, t))
            /\ mapper.line = LineOf(source, k)
            /\ mapper.col = ColOf(source, k)

\* The same statement for texts that do not begin with '\n'.
C1_HoldsWithoutLeadingNewline ==
  (source # <<>> /\ source[1] # NL) => C1_LineColOfTarget

(***************************************************************************)
(* KakHighlightRange::from_iter                                            *)
(***************************************************************************)
\* characters in a text given to from_iter with a well-formed event stream
MaxSrcChars == 2
\* events of a well-formed event stream
MaxEvents == 4
\* characters in a text given to from_iter with an arbitrary event stream
MaxAnyChars == 2
\* events of an arbitrary event stream
MaxAnyEvents == 2
\* characters in a face name of the face table of an arbitrary event stream
MaxNameLen == 2

NameChars == {"k", "."}

FaceNames == SeqsOf(NameChars, 1, MaxNameLen)

RECURSIVE SetToSeq(_)
\* the elements of a finite set, listed in some order
SetToSeq(S) ==
  IF S = {} THEN <<>>
  ELSE LET x == CHOOSE y \in S : TRUE IN <<x>> \o SetToSeq(S \ {x})

\* a face table that holds every face name of the bound
AllFaceNames == SetToSeq(FaceNames)

\* a face table of two scopes, "k" and "k.k"
TwoFaceNames == <<<<"k">>, <<"k", ".", "k">>>>

\* the literal "unknown"
UnknownFace == <<"u", "n", "k", "n", "o", "w", "n">>

\* a slip of ReplaceDots: only the first '.' is rewritten (str::replacen(.., 1))
ReplaceFirstDot(face) ==
  [i \in 1..Len(face) |->
     IF face[i] = "." /\ \A j \in 1..(i - 1) : face[j] # "." THEN "_" ELSE face[i]]

\* str::replace('.', "_")
ReplaceDots(face) == [i \in 1..Len(face) |-> IF face[i] = "." THEN "_" ELSE face[i]]

\* KakHighlightRange::new
KakHighlightRangeNew(line_start, col_start, line_end, col_end, face) ==
  [line_start |-> line_start, col_start |-> col_start,
   line_end |-> line_end, col_end |-> col_end, face |-> face]

\* HighlightEvent::Source { start, end }
Source(start, end) == [type |-> "Source", start |-> start, end |-> end]

\* HighlightEvent::HighlightStart(Highlight(idx))
HighlightStart(idx) == [type |-> "HighlightStart", idx |-> idx]

\* HighlightEvent::HighlightEnd
HighlightEnd == [type |-> "HighlightEnd"]

\* a slip of LastFace: the outermost open scope (faces.first()) is used
FirstFace(stack) == IF stack = <<>> THEN UnknownFace ELSE stack[1]

\* faces.last().copied().unwrap_or("unknown")
LastFace(stack) == IF stack = <<>> THEN UnknownFace ELSE stack[Len(stack)]

\* Vec::pop: removes the last element; nothing happens on an empty vector
Pop(stack) == IF stack = <<>> THEN <<>> ELSE SubSeq(stack, 1, Len(stack) - 1)

\* a slip of SourceRange: each event is located by a cursor of its own,
\* started at the beginning of the text
SourceRangeFreshCursor(m, stack, start, til) ==
  LET m1 == MapperAdvance(MapperNew(CharIndices(source)), start)
      m2 == MapperAdvance(m1, til)
  IN  [mapper |-> m2,
       range  |-> KakHighlightRangeNew(m1.line, m1.col, m2.line, m2.col,
                                       ReplaceDots(LastFace(stack)))]

\* the range pushed for a non-empty Source event whose last byte is at
\* offset til (end - 1), with the mapper after it
SourceRange(m, stack, start, til) ==
  LET m1 == MapperAdvance(m, start)
      m2 == MapperAdvance(m1, til)
  IN  [mapper |-> m2,
       range  |-> KakHighlightRangeNew(m1.line, m1.col, m2.line, m2.col,
                                       ReplaceDots(LastFace(stack)))]

\* usize::MAX, the value of 0 - 1 where overflow is not checked: all that
\* advance does with it is compare it with byte offsets of the text, all of
\* which are below it
UsizeMax(text) == ByteLen(text) + 1

\* a slip of SourceEvent: the `start == end` test is missing, and an empty
\* Source event pushes a range too
SourceEventNoSkip(start, end, bound) ==
  /\ pc = "run"
  /\ Len(hl_events) < bound
  /\ hl_events' = Append(hl_events, Source(start, end))
  /\ LET til == IF end = 0 THEN UsizeMax(source) ELSE end - 1
         r   == SourceRange(mapper, faces, start, til)
     IN  /\ mapper' = r.mapper
         /\ kak_hls' = Append(kak_hls, r.range)
  /\ UNCHANGED <<source, tils, hl_names, faces, pc, lines, f, called, req, prev_req, names,
                 steps, wire, result, files>>

\* a slip of SourceEvent: an empty Source event pushes nothing but moves the
\* cursor to its offset
SourceEventSkipAdvances(start, end, bound) ==
  /\ pc = "run"
  /\ Len(hl_events) < bound
  /\ hl_events' = Append(hl_events, Source(start, end))
  /\ IF start = end
     THEN mapper' = MapperAdvance(mapper, start) /\ UNCHANGED <<kak_hls, pc>>
     ELSE \E overflow_checks \in IF end = 0 THEN BOOLEAN ELSE {FALSE} :
            IF overflow_checks
            THEN pc' = "panic" /\ UNCHANGED <<mapper, kak_hls>>
            ELSE LET til == IF end = 0 THEN UsizeMax(source) ELSE end - 1
                     r   == SourceRange(mapper, faces, start, til)
                 IN  /\ mapper' = r.mapper
                     /\ kak_hls' = Append(kak_hls, r.range)
                     /\ pc' = pc
  /\ UNCHANGED <<source, tils, hl_names, faces, lines, f, called, req, prev_req, names,
                 steps, wire, result, files>>

\* the loop body for HighlightEvent::Source { start, end }.  With end = 0
\* and start # 0, `end - 1` overflows: a build with overflow checks panics,
\* a build without them wraps to usize::MAX.
SourceEvent(start, end, bound) ==
  /\ pc = "run"
  /\ Len(hl_events) < bound
  /\ hl_events' = Append(hl_events, Source(start, end))
  /\ IF start = end
     THEN UNCHANGED <<mapper, kak_hls, pc>>
     ELSE \E overflow_checks \in IF end = 0 THEN BOOLEAN ELSE {FALSE} :
            IF overflow_checks
            THEN pc' = "panic" /\ UNCHANGED <<mapper, kak_hls>>
            ELSE LET til == IF end = 0 THEN UsizeMax(source) ELSE end - 1
                     r   == SourceRange(mapper, faces, start, til)
                 IN  /\ mapper' = r.mapper
                     /\ kak_hls' = Append(kak_hls, r.range)
                     /\ pc' = pc
  /\ UNCHANGED <<source, tils, hl_names, faces, lines, f, called, req, prev_req, names,
                 steps, wire, result, files>>

\* the loop body for HighlightEvent::HighlightStart(Highlight(idx)); the
\* index is 0-based and hl_names[idx] panics when it is out of range
HighlightStartEvent(idx, bound) ==
  /\ pc = "run"
  /\ Len(hl_events) < bound
  /\ hl_events' = Append(hl_events, HighlightStart(idx))
  /\ IF idx < Len(hl_names)
     THEN faces' = Append(faces, hl_names[idx + 1]) /\ pc' = pc
     ELSE faces' = faces /\ pc' = "panic"
  /\ UNCHANGED <<source, mapper, tils, hl_names, kak_hls, lines, f, called, req, prev_req, names,
                 steps, wire, result, files>>

\* the loop body for HighlightEvent::HighlightEnd
HighlightEndEvent(bound) ==
  /\ pc = "run"
  /\ Len(hl_events) < bound
  /\ hl_events' = Append(hl_events, HighlightEnd)
  /\ faces' = Pop(faces)
  /\ UNCHANGED <<source, mapper, tils, hl_names, kak_hls, pc, lines, f, called, req, prev_req, names,
                 steps, wire, result, files>>

\* the iterator is exhausted: from_iter returns kak_hls
Return ==
  /\ pc = "run"
  /\ pc' = "done"
  /\ UNCHANGED <<source, mapper, tils, hl_names, hl_events, faces, kak_hls,
                 lines, f, called, req, prev_req, names,
                 steps, wire, result, files>>

\* scopes opened and not yet closed after the events evs
RECURSIVE Depth(_)
Depth(evs) ==
  IF evs = <<>> THEN 0
  ELSE LET e == evs[Len(evs)]
           d == Depth(SubSeq(evs, 1, Len(evs) - 1))
       IN  IF e.type = "HighlightStart" THEN d + 1
           ELSE IF e.type = "HighlightEnd" THEN d - 1
           ELSE d

\* The event e keeps the stream evs well formed: a Source range is ordered,
\* lies in the text and starts at or after the end of the Source ranges
\* before it, a scope-end closes an open scope, and a scope-start names an
\* entry of the face table.
ExtendsWellFormed(evs, e, table, text) ==
  /\ e.type = "Source" =>
       /\ e.start <= e.end
       /\ e.end <= ByteLen(text)
       /\ \A j \in 1..Len(evs) : evs[j].type = "Source" => evs[j].end <= e.start
  /\ e.type = "HighlightStart" => e.idx < Len(table)
  /\ e.type = "HighlightEnd" => Depth(evs) > 0

\* A well-formed event stream (balanced scopes, non-decreasing ranges)
WellFormed(evs, table, text) ==
  \A i \in 1..Len(evs) : ExtendsWellFormed(SubSeq(evs, 1, i - 1), evs[i], table, text)

\* from_iter's locals before the loop
FromIterEntry ==
  /\ hl_events = <<>>
  /\ kak_hls = <<>>
  /\ faces = <<>>
  /\ mapper = MapperNew(CharIndices(source))
  /\ tils = <<>>
  /\ pc = "run"
  /\ IdleIndent /\ IdleReq /\ IdleIO

(***************************************************************************)
(* SpecHL: from_iter driven by a well-formed event stream.                 *)
(***************************************************************************)
InitHL ==
  /\ source \in SeqsOf(Alphabet, 0, MaxSrcChars)
  /\ hl_names = TwoFaceNames
  /\ FromIterEntry

NextHL ==
  \/ \E start \in 0..ByteLen(source), end \in 0..ByteLen(source) :
       /\ ExtendsWellFormed(hl_events, Source(start, end), hl_names, source)
       /\ SourceEvent(start, end, MaxEvents)
  \/ \E idx \in 0..(Len(hl_names) - 1) : HighlightStartEvent(idx, MaxEvents)
  \/ /\ ExtendsWellFormed(hl_events, HighlightEnd, hl_names, source)
     /\ HighlightEndEvent(MaxEvents)
  \/ Return

SpecHL == InitHL /\ [][NextHL]_vars

(***************************************************************************)
(* SpecHLAny: from_iter driven by any event stream, over any face table    *)
(* entry.                                                                  *)
(***************************************************************************)
InitHLAny ==
  /\ source \in SeqsOf(Alphabet, 0, MaxAnyChars)
  /\ hl_names = AllFaceNames
  /\ FromIterEntry

NextHLAny ==
  \/ \E start \in 0..ByteLen(source), end \in 0..ByteLen(source) :
       SourceEvent(start, end, MaxAnyEvents)
  \/ \E idx \in 0..Len(hl_names) : HighlightStartEvent(idx, MaxAnyEvents)
  \/ HighlightEndEvent(MaxAnyEvents)
  \/ Return

SpecHLAny == InitHLAny /\ [][NextHLAny]_vars

(***************************************************************************)
(* Reference readings of an event stream, taken from the events alone.     *)
(***************************************************************************)
IsNonEmptySource(e) == e.type = "Source" /\ e.start # e.end

\* the non-empty Source events of a stream, in stream order
NonEmptySources(evs) == SelectSeq(evs, IsNonEmptySource)

\* the place in evs of its i-th non-empty Source event
PlaceOfNth(evs, i) ==
  CHOOSE p \in 1..Len(evs) :
    /\ IsNonEmptySource(evs[p])
    /\ Len(NonEmptySources(SubSeq(evs, 1, p))) = i

\* byte offsets at which a range may begin or end: the character boundaries
Boundaries(s) == CharOffsets(s) \cup {ByteLen(s)}

RECURSIVE OpenScope(_, _, _)
\* The scope-start event that is open after evs[1..i]: walking back from i,
\* a scope-end hides the nearest scope-start before it.  0 when none is open.
OpenScope(evs, i, closed) ==
  IF i = 0 THEN 0
  ELSE IF evs[i].type = "HighlightEnd" THEN OpenScope(evs, i - 1, closed + 1)
  ELSE IF evs[i].type = "HighlightStart"
       THEN IF closed > 0 THEN OpenScope(evs, i - 1, closed - 1) ELSE i
  ELSE OpenScope(evs, i - 1, closed)

\* s with every '.' written as '_'
IsDotRewrite(name, face) ==
  /\ Len(face) = Len(name)
  /\ \A k \in 1..Len(name) :
       face[k] = (IF name[k] = "." THEN "_" ELSE name[k])

RECURSIVE CursorAfter(_, _)
\* the position cursor after the given non-empty Source events: two advance
\* calls for each, to its start and to its last byte
CursorAfter(text, srcs) ==
  IF srcs = <<>> THEN MapperNew(CharIndices(text))
  ELSE LET e == srcs[Len(srcs)]
           m == CursorAfter(text, SubSeq(srcs, 1, Len(srcs) - 1))
       IN  MapperAdvance(MapperAdvance(m, e.start), e.end - 1)

\* C2: for a well-formed stream, every non-empty Source event [start, end)
\* with bounds on character boundaries yields a range that starts at the
\* 1-based position of the character at byte start and ends at the 1-based
\* position of the last character inside the range (inclusive end).
C2_RangeIsFirstToLastChar ==
  (pc \in {"run", "done"}) =>
    \A i \in 1..Len(kak_hls) :
      LET e == NonEmptySources(hl_events)[i]
          r == kak_hls[i]
      IN  (e.start \in Boundaries(source) /\ e.end \in Boundaries(source)) =>
            /\ r.line_start = LineOf(source, CharAt(source, e.start))
            /\ r.col_start = ColOf(source, CharAt(source, e.start))
            /\ r.line_end = LineOf(source, CharAt(source, e.end - 1))
            /\ r.col_end = ColOf(source, CharAt(source, e.end - 1))

\* The same statement for texts that do not begin with '\n', where the
\* positions of C1 are right: it still fails, on multi-byte characters.
C2_FailsWithoutLeadingNewline ==
  (source # <<>> /\ source[1] # NL) => C2_RangeIsFirstToLastChar

\* The same statement for texts of one-byte characters that do not begin
\* with '\n': it holds.
C2_HoldsForOneByteChars ==
  (/\ source # <<>> /\ source[1] # NL
   /\ \A k \in 1..Len(source) : Utf8Len(source[k]) = 1)
  => C2_RangeIsFirstToLastChar

\* C3: for a well-formed stream, from_iter emits exactly one range per
\* non-empty Source event and none for any other event, and the i-th range
\* is the one of the i-th non-empty Source event: its positions are those
\* the cursor reports for that event after the non-empty Source events
\* before it (no reordering, no merging).
C3_OneRangePerNonEmptySource ==
  (pc \in {"run", "done"}) =>
    LET srcs == NonEmptySources(hl_events) IN
    /\ Len(kak_hls) = Len(srcs)
    /\ \A i \in 1..Len(srcs) :
         LET m0 == CursorAfter(source, SubSeq(srcs, 1, i - 1))
             m1 == MapperAdvance(m0, srcs[i].start)
             m2 == MapperAdvance(m1, srcs[i].end - 1)
         IN  /\ kak_hls[i].line_start = m1.line
             /\ kak_hls[i].col_start = m1.col
             /\ kak_hls[i].line_end = m2.line
             /\ kak_hls[i].col_end = m2.col

\* a finished run with an empty Source event, a scope event and two ranges
C3_Witness ==
  /\ pc = "done"
  /\ Len(kak_hls) = 2
  /\ Len(hl_events) = 4
  /\ \E p \in 1..Len(hl_events) :
       hl_events[p].type = "Source" /\ hl_events[p].start = hl_events[p].end
  /\ \E p \in 1..Len(hl_events) : hl_events[p].type = "HighlightStart"

\* C4: for a well-formed stream, the face of each range is the name (dots
\* rewritten) of the most recently opened scope not yet closed at its Source
\* event: a matching scope-end brings back the face active before the
\* scope-start, and with no scope open the face is "unknown".
C4_FaceIsInnermostOpenScope ==
  (pc \in {"run", "done"}) =>
    \A i \in 1..Len(kak_hls) :
      LET p == PlaceOfNth(hl_events, i)
          o == OpenScope(hl_events, p - 1, 0)
      IN  IF o = 0
          THEN kak_hls[i].face = UnknownFace
          ELSE IsDotRewrite(hl_names[hl_events[o].idx + 1], kak_hls[i].face)

\* scope 0 opened, scope 1 opened and closed, then a range with scope 0's face
C4_Witness ==
  /\ Len(hl_events) = 4
  /\ hl_events[1] = HighlightStart(0)
  /\ hl_events[2] = HighlightStart(1)
  /\ hl_events[3] = HighlightEnd
  /\ IsNonEmptySource(hl_events[4])
  /\ Len(kak_hls) = 1
  /\ kak_hls[1].face = <<"k">>

RECURSIVE ScopeStack(_, _)
\* the names on the face stack after the events evs
ScopeStack(evs, table) ==
  IF evs = <<>> THEN <<>>
  ELSE LET e == evs[Len(evs)]
           st == ScopeStack(SubSeq(evs, 1, Len(evs) - 1), table)
       IN  IF e.type = "HighlightStart"
           THEN (IF e.idx < Len(table) THEN Append(st, table[e.idx + 1]) ELSE st)
           ELSE IF e.type = "HighlightEnd"
           THEN (IF st = <<>> THEN st ELSE SubSeq(st, 1, Len(st) - 1))
           ELSE st

\* C5: for every event stream and face table entry, the face of every range
\* holds no '.': it is the resolved face name with every '.' written as
\* '_', and the fallback face "unknown" is emitted as it is.
C5_FaceHasNoDot ==
  \A i \in 1..Len(kak_hls) :
    LET p  == PlaceOfNth(hl_events, i)
        st == ScopeStack(SubSeq(hl_events, 1, p - 1), hl_names)
        name == IF st = <<>> THEN UnknownFace ELSE st[Len(st)]
        face == kak_hls[i].face
    IN  /\ \A k \in 1..Len(face) : face[k] # "."
        /\ IsDotRewrite(name, face)
        /\ st = <<>> => face = UnknownFace

\* a range whose scope name ".." is emitted as "__"
C5_Witness ==
  /\ \E i \in 1..Len(kak_hls) : kak_hls[i].face = <<"_", "_">>
  /\ Len(hl_events) = 2
  /\ hl_events[1].type = "HighlightStart"

\* a range emitted with the fallback face
C5_WitnessFallback ==
  \E i \in 1..Len(kak_hls) : kak_hls[i].face = UnknownFace

(***************************************************************************)
(* IndentGuidelines                                                        *)
(***************************************************************************)
\* the largest line number of a guideline
MaxLine == 4
\* the largest 0-based column of a guide
MaxCol == 1

\* INDENT_GUIDELINE_CHAR, the box-drawing vertical bar U+2502
INDENT_GUIDELINE_CHAR == "U+2502"

\* the face name to_kak_ranges_str passes
IndentGuidelineFace == "ts_indent_guideline"

\* IndentGuideline::new
IndentGuideline(line, cols) == [line |-> line, cols |-> cols]

\* the column lists: strictly increasing 0-based columns
ColLists == {q \in SeqsOf(0..MaxCol, 0, MaxCol + 1) :
               \A i \in 1..(Len(q) - 1) : q[i] < q[i + 1]}

\* the guideline lists: strictly increasing 1-based lines
GuidelineLists ==
  {q \in SeqsOf({IndentGuideline(l, c) : l \in 1..MaxLine, c \in ColLists}, 0, MaxLine) :
     \A i \in 1..(Len(q) - 1) : q[i].line < q[i + 1].line}

\* write!(f, "{line}.{col}+1|{s} "): the token, by the values written into it
Token(line, col, s) == [line |-> line, col |-> col, span |-> 1, symbol |-> s]

\* `for col in &cols { write!(..) }` for one line
ColTokens(line, cols, s) == [k \in 1..Len(cols) |-> Token(line, cols[k], s)]

RECURSIVE GapTokens(_, _, _, _)
\* `for line in line1.line..line2.line { for col in &line1.cols { .. } }`
GapTokens(from, to, cols, s) ==
  IF from >= to THEN <<>>
  ELSE ColTokens(from, cols, s) \o GapTokens(from + 1, to, cols, s)

\* the loop body for one pair (line1, line2)
PairTokens(line1, line2, s) ==
  GapTokens(line1.line, line2.line, line1.cols, s)
    \o ColTokens(line2.line, line2.cols, s)

RECURSIVE ZipTokens(_, _, _)
\* the loop over self.lines.iter().zip(self.lines.iter().skip(1)), from pair i
ZipTokens(ls, i, s) ==
  IF i + 1 > Len(ls) THEN <<>>
  ELSE PairTokens(ls[i], ls[i + 1], s) \o ZipTokens(ls, i + 1, s)

\* IndentGuidelines::to_kak_replace_hl_str: what it writes to the formatter
ToKakReplaceHlStr(ls, s) == ZipTokens(ls, 1, s)

\* IndentGuidelines::new, and an empty formatter for each function
InitIndent ==
  /\ lines \in GuidelineLists
  /\ f = [fn \in {"replace_ranges", "ranges"} |-> <<>>]
  /\ called = {}
  /\ source = <<>> /\ mapper = IdleMapper /\ tils = <<>> /\ pc = "idle"
  /\ IdleHL /\ IdleReq /\ IdleIO

\* IndentGuidelines::to_kak_replace_replace_ranges_str
ToKakReplaceReplaceRangesStr ==
  /\ "replace_ranges" \notin called
  /\ called' = called \cup {"replace_ranges"}
  /\ f' = [f EXCEPT !["replace_ranges"] =
             @ \o ToKakReplaceHlStr(lines, INDENT_GUIDELINE_CHAR)]
  /\ UNCHANGED <<source, mapper, tils, hl_names, hl_events, faces, kak_hls, pc,
                 lines, req, prev_req, names,
                 steps, wire, result, files>>

\* IndentGuidelines::to_kak_ranges_str
ToKakRangesStr ==
  /\ "ranges" \notin called
  /\ called' = called \cup {"ranges"}
  /\ f' = [f EXCEPT !["ranges"] =
             @ \o ToKakReplaceHlStr(lines, IndentGuidelineFace)]
  /\ UNCHANGED <<source, mapper, tils, hl_names, hl_events, faces, kak_hls, pc,
                 lines, req, prev_req, names,
                 steps, wire, result, files>>

NextIndent == ToKakReplaceReplaceRangesStr \/ ToKakRangesStr

SpecIndent == InitIndent /\ [][NextIndent]_vars

\* the tokens of an output written at line l with column number c
TokensAt(out, l, c) == {k \in 1..Len(out) : out[k].line = l /\ out[k].col = c}

\* the elements of a sequence
Elems(q) == {q[k] : k \in 1..Len(q)}

\* C6: for strictly increasing lines and every entry L with a successor N,
\* the output holds exactly one token for each line l in [L.line, N.line)
\* and each column c of L.cols: none is missing, none is written twice.
\* (A token is looked up by the column number the compactor writes for c.)
C6_OneTokenPerCarriedGuide ==
  \A fn \in called :
    \A i \in 1..(Len(lines) - 1) :
      \A l \in lines[i].line..(lines[i + 1].line - 1) :
        \A c \in Elems(lines[i].cols) :
          Cardinality(TokensAt(f[fn], l, c)) = 1

\* The same statement for lists of at most two entries: it holds.
C6_HoldsUpToTwoEntries == Len(lines) <= 2 => C6_OneTokenPerCarriedGuide

\* C7: for every non-empty list, a list of one entry included, the output
\* holds the final entry's columns exactly once, on the final entry's line.
C7_FinalEntryOnce ==
  \A fn \in called :
    lines # <<>> =>
      LET last == lines[Len(lines)] IN
      \A c \in Elems(last.cols) :
        Cardinality(TokensAt(f[fn], last.line, c)) = 1

\* The same statement for lists of two entries or more: it holds.
C7_HoldsFromTwoEntries == Len(lines) # 1 => C7_FinalEntryOnce

\* the guides a list of guidelines stands for: each entry's columns on its
\* own line and on every line up to the next entry's
Guides(ls) ==
  {g \in (1..MaxLine) \X (0..MaxCol) :
     \E i \in 1..Len(ls) :
       /\ g[2] \in Elems(ls[i].cols)
       /\ ls[i].line <= g[1]
       /\ IF i < Len(ls) THEN g[1] < ls[i + 1].line ELSE g[1] = ls[i].line}

\* both functions write the same positions, and each its own symbol
SamePositions ==
  called = {"replace_ranges", "ranges"} =>
    /\ Len(f["replace_ranges"]) = Len(f["ranges"])
    /\ \A k \in 1..Len(f["ranges"]) :
         /\ f["replace_ranges"][k].line = f["ranges"][k].line
         /\ f["replace_ranges"][k].col = f["ranges"][k].col
         /\ f["replace_ranges"][k].span = f["ranges"][k].span
         /\ f["replace_ranges"][k].symbol = INDENT_GUIDELINE_CHAR
         /\ f["ranges"][k].symbol = IndentGuidelineFace

\* C8: every token written for a guide at line l and 0-based column c is
\* "<l>.<c+1>+1|<symbol> " (1-based column, span of one character), and the
\* two functions write the same positions and differ only in the symbol.
C8_TokenIsOneBasedColumn ==
  /\ \A fn \in called :
       \A k \in 1..Len(f[fn]) :
         /\ f[fn][k].span = 1
         /\ \E g \in Guides(lines) :
              f[fn][k].line = g[1] /\ f[fn][k].col = g[2] + 1
  /\ SamePositions

\* The token's fields other than the column number, and the agreement of
\* the two functions: these hold.
C8_HoldsButForColumn ==
  /\ \A fn \in called :
       \A k \in 1..Len(f[fn]) :
         /\ f[fn][k].span = 1
         /\ \E g \in Guides(lines) :
              f[fn][k].line = g[1] /\ f[fn][k].col = g[2]
  /\ SamePositions

(***************************************************************************)
(* UnixRequest::with_session                                               *)
(***************************************************************************)
\* calls of with_session on one request
MaxSessionCalls == 3

\* session names; "" is the empty name
SessionNames == {"", "s1", "s2"}

\* Option<String> client: <<>> is None, <<c>> is Some(c)
Clients == {<<>>, <<"c1">>, <<"c2">>}

\* enum UnixRequest
UnixRequests ==
  {[type |-> "RegisterSession", name |-> n, client |-> c] :
     n \in SessionNames, c \in Clients}
  \cup {[type |-> "SessionExit", name |-> n] : n \in SessionNames}
  \cup {[type |-> "Reload"], [type |-> "Shutdown"]}

\* a slip of WithSession: SessionExit falls through to `_ => self`
WithSessionSkipExit(r, name) ==
  IF r.type = "RegisterSession"
  THEN [type |-> "RegisterSession", client |-> r.client, name |-> name]
  ELSE r

\* a slip of WithSession: RegisterSession is rebuilt with client: None
WithSessionDropClient(r, name) ==
  IF r.type = "RegisterSession"
  THEN [type |-> "RegisterSession", client |-> <<>>, name |-> name]
  ELSE IF r.type = "SessionExit"
  THEN [type |-> "SessionExit", name |-> name]
  ELSE r

\* UnixRequest::with_session
WithSession(r, name) ==
  IF r.type = "RegisterSession"
  THEN [type |-> "RegisterSession", client |-> r.client, name |-> name]
  ELSE IF r.type = "SessionExit"
  THEN [type |-> "SessionExit", name |-> name]
  ELSE r

\* a request as it is constructed or deserialized
InitReq ==
  /\ req \in UnixRequests
  /\ prev_req = req
  /\ names = <<>>
  /\ source = <<>> /\ mapper = IdleMapper /\ tils = <<>> /\ pc = "idle"
  /\ IdleHL /\ IdleIndent /\ IdleIO

\* req = req.with_session(name)
WithSessionCall(name) ==
  /\ Len(names) < MaxSessionCalls
  /\ prev_req' = req
  /\ req' = WithSession(req, name)
  /\ names' = Append(names, name)
  /\ UNCHANGED <<source, mapper, tils, hl_names, hl_events, faces, kak_hls, pc,
                 lines, f, called, steps, wire, result, files>>

NextReq == \E name \in SessionNames : WithSessionCall(name)

SpecReq == InitReq /\ [][NextReq]_vars

\* C9: with_session is idempotent (a second call with the same name changes
\* nothing), and after with_session(n) a RegisterSession or SessionExit
\* carries exactly n, whatever name it carried before.
C9_WithSessionIdempotent ==
  /\ (Len(names) >= 2 /\ names[Len(names)] = names[Len(names) - 1])
       => req = prev_req
  /\ (names # <<>> /\ req.type \in {"RegisterSession", "SessionExit"})
       => req.name = names[Len(names)]

\* a request renamed "s2", then renamed "s1" twice
C9_Witness ==
  /\ names = <<"s2", "s1", "s1">>
  /\ req = [type |-> "SessionExit", name |-> "s1"]
  /\ prev_req = req

\* C10: with_session never changes the variant and changes nothing but the
\* name: RegisterSession keeps its client (present or absent), and Reload
\* and Shutdown come back identical.
C10_WithSessionFrame ==
  names # <<>> =>
    /\ req.type = prev_req.type
    /\ DOMAIN req = DOMAIN prev_req
    /\ \A fld \in DOMAIN req \ {"name"} : req[fld] = prev_req[fld]
    /\ req.type \in {"Reload", "Shutdown"} => req = prev_req

\* a RegisterSession renamed with its client kept
C10_Witness ==
  /\ names = <<"s2">>
  /\ prev_req = [type |-> "RegisterSession", name |-> "s1", client |-> <<"c1">>]
  /\ req = [type |-> "RegisterSession", name |-> "s2", client |-> <<"c1">>]

(***************************************************************************)
(* The wire form: #[derive(Serialize)] with #[serde(tag = "type",          *)
(* rename_all = "snake_case")] on UnixRequest and Request, written by      *)
(* serde_json::to_string.  A JSON object is the sequence of its            *)
(* <<key, value>> members in the order they are written.                   *)
(***************************************************************************)
\* the field values of Request the model draws from
ClientNames == {"client0", "c1"}
BufferNames == {"/tmp/a.rs", "b1"}
LangNames == {"rust", "l1"}
Timestamps == {0, 1}
Patterns == {"p1"}
Selections == {"1.1,1.2"}
\* the values of OperationMode and nav::Dir, as they are written
OperationModes == {"mode1", "mode2"}
NavDirs == {"dir1", "dir2"}

\* enum Request
Requests ==
  {[type |-> "TryEnableHighlight", lang |-> l, client |-> c] :
     l \in LangNames, c \in ClientNames}
  \cup {[type |-> "Highlight", client |-> c, buffer |-> b, lang |-> l, timestamp |-> t] :
          c \in ClientNames, b \in BufferNames, l \in LangNames, t \in Timestamps}
  \cup {[type |-> "TextObjects", client |-> c, buffer |-> b, lang |-> l,
         pattern |-> p, selections |-> sel, mode |-> m] :
          c \in ClientNames, b \in BufferNames, l \in LangNames,
          p \in Patterns, sel \in Selections, m \in OperationModes}
  \cup {[type |-> "Nav", client |-> c, buffer |-> b, lang |-> l,
         selections |-> sel, dir |-> d] :
          c \in ClientNames, b \in BufferNames, l \in LangNames,
          sel \in Selections, d \in NavDirs}

\* the variant names of the two enums, letter by letter
VariantName(type) ==
  CASE type = "RegisterSession" ->
         <<"R","e","g","i","s","t","e","r","S","e","s","s","i","o","n">>
    [] type = "SessionExit" -> <<"S","e","s","s","i","o","n","E","x","i","t">>
    [] type = "Reload" -> <<"R","e","l","o","a","d">>
    [] type = "Shutdown" -> <<"S","h","u","t","d","o","w","n">>
    [] type = "TryEnableHighlight" ->
         <<"T","r","y","E","n","a","b","l","e","H","i","g","h","l","i","g","h","t">>
    [] type = "Highlight" -> <<"H","i","g","h","l","i","g","h","t">>
    [] type = "TextObjects" -> <<"T","e","x","t","O","b","j","e","c","t","s">>
    [] type = "Nav" -> <<"N","a","v">>

\* the fields of each variant, in declaration order
VariantFields(type) ==
  CASE type = "RegisterSession" -> <<"name", "client">>
    [] type = "SessionExit" -> <<"name">>
    [] type = "Reload" -> <<>>
    [] type = "Shutdown" -> <<>>
    [] type = "TryEnableHighlight" -> <<"lang", "client">>
    [] type = "Highlight" -> <<"client", "buffer", "lang", "timestamp">>
    [] type = "TextObjects" ->
         <<"client", "buffer", "lang", "pattern", "selections", "mode">>
    [] type = "Nav" -> <<"client", "buffer", "lang", "selections", "dir">>

\* the upper-case letters, each with its lower-case letter
UpperToLower ==
  [c \in {"E", "H", "N", "O", "R", "S", "T"} |->
     CASE c = "E" -> "e" [] c = "H" -> "h" [] c = "N" -> "n" [] c = "O" -> "o"
       [] c = "R" -> "r" [] c = "S" -> "s" [] c = "T" -> "t"]

IsUpper(c) == c \in DOMAIN UpperToLower

\* w in lower case (rename_all = "lowercase": no '_' between the words)
LowerCase(w) == [i \in 1..Len(w) |-> IF IsUpper(w[i]) THEN UpperToLower[w[i]] ELSE w[i]]

RECURSIVE SnakeCase(_)
\* rename_all = "snake_case" on a variant name: every upper-case letter is
\* written in lower case, after a '_' unless it is the first letter
SnakeCase(w) ==
  IF w = <<>> THEN <<>>
  ELSE LET c     == w[Len(w)]
           front == SnakeCase(SubSeq(w, 1, Len(w) - 1))
       IN  IF IsUpper(c)
           THEN (IF front = <<>> THEN <<>> ELSE front \o <<"_">>) \o <<UpperToLower[c]>>
           ELSE front \o <<c>>

\* the tag value of a variant
TypeTag(type) == SnakeCase(VariantName(type))

\* serde_json's form of a field value: null for None, the string of
\* Some(s), a number for u64, a string otherwise
JsonValue(r, field) ==
  IF r.type = "RegisterSession" /\ field = "client"
  THEN (IF r.client = <<>> THEN [json |-> "null"]
        ELSE [json |-> "string", value |-> r.client[1]])
  ELSE IF field = "timestamp" THEN [json |-> "number", value |-> r[field]]
  ELSE [json |-> "string", value |-> r[field]]

\* the members of the fields of a variant, in declaration order
FieldMembers(r) ==
  [i \in 1..Len(VariantFields(r.type)) |->
     <<VariantFields(r.type)[i], JsonValue(r, VariantFields(r.type)[i])>>]

\* a slip of ToJson: the tag is written after the fields
ToJsonTagLast(r) == FieldMembers(r) \o <<<<"type", TypeTag(r.type)>>>>

\* serde_json::to_string of a UnixRequest or a Request
ToJson(r) == <<<<"type", TypeTag(r.type)>>>> \o FieldMembers(r)

(***************************************************************************)
(* SpecWire: a request value, serialized.                                  *)
(***************************************************************************)
InitWire ==
  /\ req \in UnixRequests \cup Requests
  /\ prev_req = req
  /\ names = <<>>
  /\ steps = <<>> /\ wire = <<>> /\ result = "none" /\ files = <<>>
  /\ source = <<>> /\ mapper = IdleMapper /\ tils = <<>> /\ pc = "idle"
  /\ IdleHL /\ IdleIndent

\* serde_json::to_string(&req)
ToStringCall ==
  /\ pc = "idle"
  /\ pc' = "done"
  /\ result' = ToJson(req)
  /\ UNCHANGED <<source, mapper, tils, hl_names, hl_events, faces, kak_hls,
                 lines, f, called, req, prev_req, names, steps, wire, files>>

NextWire == ToStringCall

SpecWire == InitWire /\ [][NextWire]_vars

\* w without its '_' characters
RECURSIVE WithoutUnderscores(_)
WithoutUnderscores(w) ==
  IF w = <<>> THEN <<>>
  ELSE IF Head(w) = "_" THEN WithoutUnderscores(Tail(w))
  ELSE <<Head(w)>> \o WithoutUnderscores(Tail(w))

\* tag is the lower-case, underscore-separated spelling of the name: no
\* upper-case letter, one '_' before each word but the first, and the
\* letters of the name in lower case
IsSnakeSpelling(name, tag) ==
  LET uppers == {i \in 1..Len(name) : IsUpper(name[i])}
      bars   == {i \in 1..Len(tag) : tag[i] = "_"}
  IN  /\ \A i \in 1..Len(tag) : ~IsUpper(tag[i])
      /\ WithoutUnderscores(tag) = LowerCase(name)
      /\ Cardinality(bars) = Cardinality(uppers \ {1})
      /\ \A i \in bars : i > 1 /\ i < Len(tag) /\ tag[i + 1] # "_"
      /\ \A i \in uppers \ {1} :
           tag[i + Cardinality({j \in uppers \ {1} : j <= i}) - 1] = "_"

\* the request of tests::serialization, and the string the test expects
TestRequest ==
  [type |-> "Highlight", client |-> "client0", buffer |-> "/tmp/a.rs",
   lang |-> "rust", timestamp |-> 0]

TestExpected ==
  <<<<"type", <<"h","i","g","h","l","i","g","h","t">>>>,
    <<"client", [json |-> "string", value |-> "client0"]>>,
    <<"buffer", [json |-> "string", value |-> "/tmp/a.rs"]>>,
    <<"lang", [json |-> "string", value |-> "rust"]>>,
    <<"timestamp", [json |-> "number", value |-> 0]>>>>

\* C13: the wire form of every Request and UnixRequest is one object whose
\* first key is "type", carrying the lower-case underscore-separated
\* spelling of the variant name, followed by the variant's fields under
\* their own names in declaration order.
C13_WireForm ==
  pc = "done" =>
    /\ Len(result) = 1 + Len(VariantFields(req.type))
    /\ result[1][1] = "type"
    /\ IsSnakeSpelling(VariantName(req.type), result[1][2])
    /\ \A i \in 1..Len(VariantFields(req.type)) :
         /\ result[i + 1][1] = VariantFields(req.type)[i]
         /\ result[i + 1][2].json \in {"string", "number", "null"}
         /\ result[i + 1][2].json # "null" =>
              result[i + 1][2].value =
                (IF req.type = "RegisterSession" /\ result[i + 1][1] = "client"
                 THEN req.client[1] ELSE req[result[i + 1][1]])
    /\ req = TestRequest => result = TestExpected

\* the request of tests::serialization, serialized
C13_Witness == pc = "done" /\ req = TestRequest /\ result = TestExpected

\* a variant of three words, serialized
C13_WitnessThreeWords ==
  /\ pc = "done"
  /\ req.type = "TryEnableHighlight"
  /\ result[1][2] = <<"t","r","y","_","e","n","a","b","l","e","_",
                      "h","i","g","h","l","i","g","h","t">>

(***************************************************************************)
(* UnixRequest::send.  The outcomes of serde_json::to_string,              *)
(* UnixStream::connect and write_all are the environment's.                *)
(***************************************************************************)
\* an operation send has performed, and whether it succeeded
Step(op, ok) == [op |-> op, ok |-> ok]

\* a request about to be sent
InitSend ==
  /\ req \in UnixRequests
  /\ prev_req = req
  /\ names = <<>>
  /\ steps = <<>> /\ wire = <<>> /\ result = "none" /\ files = <<>>
  /\ pc = "serialize"
  /\ source = <<>> /\ mapper = IdleMapper /\ tils = <<>>
  /\ IdleHL /\ IdleIndent

\* serde_json::to_string(&self).map_err(CannotSendRequest)?
SendSerialize ==
  /\ pc = "serialize"
  /\ \E ok \in BOOLEAN :
       /\ steps' = Append(steps, Step("serialize", ok))
       /\ IF ok THEN pc' = "connect" /\ result' = result
          ELSE pc' = "returned" /\ result' = "CannotSendRequest"
  /\ UNCHANGED <<source, mapper, tils, hl_names, hl_events, faces, kak_hls,
                 lines, f, called, req, prev_req, names, wire, files>>

\* a slip of SendConnect: a failed connection is tried again
SendConnectRetry ==
  /\ pc = "connect"
  /\ Len(steps) < 4
  /\ \E ok \in BOOLEAN :
       /\ steps' = Append(steps, Step("connect", ok))
       /\ pc' = IF ok THEN "write" ELSE "connect"
  /\ UNCHANGED <<source, mapper, tils, hl_names, hl_events, faces, kak_hls,
                 lines, f, called, req, prev_req, names, wire, result, files>>

\* UnixStream::connect(resources.socket_path()).map_err(CannotConnectToServer)?
SendConnect ==
  /\ pc = "connect"
  /\ \E ok \in BOOLEAN :
       /\ steps' = Append(steps, Step("connect", ok))
       /\ IF ok THEN pc' = "write" /\ result' = result
          ELSE pc' = "returned" /\ result' = "CannotConnectToServer"
  /\ UNCHANGED <<source, mapper, tils, hl_names, hl_events, faces, kak_hls,
                 lines, f, called, req, prev_req, names, wire, files>>

\* a slip of SendWrite: a failed write is reported as CannotConnectToServer
SendWriteAsConnectError ==
  /\ pc = "write"
  /\ \E n \in 0..Len(ToJson(req)) :
       /\ wire' = SubSeq(ToJson(req), 1, n)
       /\ steps' = Append(steps, Step("write", n = Len(ToJson(req))))
       /\ result' = IF n = Len(ToJson(req)) THEN "Ok" ELSE "CannotConnectToServer"
  /\ pc' = "returned"
  /\ UNCHANGED <<source, mapper, tils, hl_names, hl_events, faces, kak_hls,
                 lines, f, called, req, prev_req, names, files>>

\* .write_all(serialized.as_bytes()).map_err(CannotSendRequest): the whole
\* payload reaches the endpoint, or the write fails after a part of it
SendWrite ==
  /\ pc = "write"
  /\ \E n \in 0..Len(ToJson(req)) :
       /\ wire' = SubSeq(ToJson(req), 1, n)
       /\ steps' = Append(steps, Step("write", n = Len(ToJson(req))))
       /\ result' = IF n = Len(ToJson(req)) THEN "Ok" ELSE "CannotSendRequest"
  /\ pc' = "returned"
  /\ UNCHANGED <<source, mapper, tils, hl_names, hl_events, faces, kak_hls,
                 lines, f, called, req, prev_req, names, files>>

NextSend == SendSerialize \/ SendConnect \/ SendWrite

SpecSend == InitSend /\ [][NextSend]_vars

\* the operation op was performed and failed / succeeded
Failed(op) == \E i \in 1..Len(steps) : steps[i].op = op /\ ~steps[i].ok
Succeeded(op) == \E i \in 1..Len(steps) : steps[i].op = op /\ steps[i].ok

\* C11: send returns CannotConnectToServer exactly when the connection
\* fails, CannotSendRequest exactly when serialization or the write fails,
\* and success only when serialization, connection and the write of the
\* full payload all succeeded.
C11_SendErrors ==
  /\ pc # "returned" => result = "none"
  /\ pc = "returned" =>
       /\ result \in {"Ok", "CannotSendRequest", "CannotConnectToServer"}
       /\ result = "CannotConnectToServer" <=> Failed("connect")
       /\ result = "CannotSendRequest" <=> (Failed("serialize") \/ Failed("write"))
       /\ result = "Ok" =>
            /\ Succeeded("serialize") /\ Succeeded("connect") /\ Succeeded("write")
            /\ wire = ToJson(req)

\* a send that failed in the write, after a part of the payload
C11_Witness ==
  /\ pc = "returned"
  /\ result = "CannotSendRequest"
  /\ Failed("write")
  /\ wire # <<>>

\* a send that succeeded
C11_WitnessOk == pc = "returned" /\ result = "Ok" /\ wire = ToJson(req)

\* C12: the steps of send are serialize, connect, write in this order, each
\* at most once: no connection after a failed serialization, nothing written
\* after a failed connection, no reply read, and after a failure no further
\* step (no retry) before the error is returned.
C12_SendOrder ==
  /\ Len(steps) <= 3
  /\ \A i \in 1..Len(steps) : steps[i].op = <<"serialize", "connect", "write">>[i]
  /\ \A i \in 1..(Len(steps) - 1) : steps[i].ok
  /\ Cardinality({i \in 1..Len(steps) : steps[i].op = "connect"}) <= 1
  /\ \A i \in 1..Len(steps) : steps[i].op # "read"
  /\ (\E i \in 1..Len(steps) : ~steps[i].ok) =>
       pc = "returned" /\ result \in {"CannotSendRequest", "CannotConnectToServer"}
  /\ wire # <<>> => Succeeded("connect")
  /\ Failed("serialize") => Len(steps) = 1
  /\ Failed("connect") => Len(steps) = 2 /\ wire = <<>>

\* a send that ended at a failed connection
C12_Witness ==
  /\ pc = "returned"
  /\ steps = <<Step("serialize", TRUE), Step("connect", FALSE)>>
  /\ result = "CannotConnectToServer"
  /\ wire = <<>>

(***************************************************************************)
(* Queries::load_from_dir.  files is the directory: one entry per query    *)
(* file name.                                                              *)
(***************************************************************************)
\* the four fields of Queries, in declaration order, and the file of each
QueryFields == <<"highlights", "injections", "locals", "text_objects">>

QueryFile(field) ==
  CASE field = "highlights" -> "highlights.scm"
    [] field = "injections" -> "injections.scm"
    [] field = "locals" -> "locals.scm"
    [] field = "text_objects" -> "textobjects.scm"

QueryFileNames == {QueryFile(QueryFields[i]) : i \in 1..Len(QueryFields)}

\* what a path of the directory can be: no file, a file that cannot be read
\* as a string (no permission, a directory, invalid UTF-8), or a text file
FileStates ==
  {[kind |-> "missing", text |-> ""], [kind |-> "unreadable", text |-> ""]}
    \cup {[kind |-> "text", text |-> t] : t \in {"", "q"}}

\* Option<String>
None == <<>>
Some(x) == <<x>>

\* fs::read_to_string(dir.join(name)).ok()
ReadToStringOk(dir, name) ==
  IF dir[name].kind = "text" THEN Some(dir[name].text) ELSE None

\* a slip of LoadQueries: one unreadable file empties every field
LoadQueriesAllOrNothing(dir) ==
  IF \A n \in QueryFileNames : dir[n].kind = "text"
  THEN [fld \in {QueryFields[i] : i \in 1..Len(QueryFields)} |->
          ReadToStringOk(dir, QueryFile(fld))]
  ELSE [fld \in {QueryFields[i] : i \in 1..Len(QueryFields)} |-> None]

\* the Queries value load_from_dir builds
LoadQueries(dir) ==
  [fld \in {QueryFields[i] : i \in 1..Len(QueryFields)} |->
     ReadToStringOk(dir, QueryFile(fld))]

InitQueries ==
  /\ files \in [QueryFileNames -> FileStates]
  /\ pc = "load"
  /\ result = "none"
  /\ steps = <<>> /\ wire = <<>>
  /\ source = <<>> /\ mapper = IdleMapper /\ tils = <<>>
  /\ IdleHL /\ IdleIndent /\ IdleReq

LoadFromDir ==
  /\ pc = "load"
  /\ result' = LoadQueries(files)
  /\ pc' = "done"
  /\ UNCHANGED <<source, mapper, tils, hl_names, hl_events, faces, kak_hls,
                 lines, f, called, req, prev_req, names, steps, wire, files>>

NextQueries == LoadFromDir

SpecQueries == InitQueries /\ [][NextQueries]_vars

\* the file of a field can be read as a string
Readable(fld) == files[QueryFile(fld)].kind = "text"

\* C14: load_from_dir always returns a Queries value, and each field is
\* Some(content of its own file) exactly when that file is readable and None
\* otherwise, whatever the other three files are.
C14_FieldsIndependent ==
  pc = "done" =>
    /\ DOMAIN result = {"highlights", "injections", "locals", "text_objects"}
    /\ \A fld \in DOMAIN result :
         /\ Readable(fld) => result[fld] = Some(files[QueryFile(fld)].text)
         /\ ~Readable(fld) => result[fld] = None

\* a directory with highlights.scm only
C14_Witness ==
  /\ pc = "done"
  /\ files["highlights.scm"] = [kind |-> "text", text |-> "q"]
  /\ \A n \in QueryFileNames \ {"highlights.scm"} : files[n].kind = "missing"
  /\ result = [highlights |-> Some("q"), injections |-> None,
               locals |-> None, text_objects |-> None]

\* a directory where textobjects.scm alone cannot be read
C14_WitnessOneUnreadable ==
  /\ pc = "done"
  /\ files["textobjects.scm"].kind = "unreadable"
  /\ \A n \in QueryFileNames \ {"textobjects.scm"} : files[n].kind = "text"
  /\ result.text_objects = None
  /\ result.highlights # None /\ result.injections # None /\ result.locals # None

(***************************************************************************)
(* from_iter on streams that break the producer's contract, and the frame  *)
(* of its events.                                                          *)
(***************************************************************************)
\* places in evs of the scope-end events met with no scope open
Underflows(evs, table) ==
  {i \in 1..Len(evs) :
     /\ evs[i].type = "HighlightEnd"
     /\ ScopeStack(SubSeq(evs, 1, i - 1), table) = <<>>}

\* C15: a scope-end event received while the face stack is empty ends the
\* translation in a fatal, reported condition: the run does not go on.
C15_UnderflowIsFatal ==
  Underflows(hl_events, hl_names) # {} => pc \notin {"run", "done"}

\* what the code does: the run goes on and ends normally after an underflow
C15_RunGoesOnAfterUnderflow ==
  /\ pc = "done"
  /\ hl_events = <<HighlightEnd, Source(0, 1)>>
  /\ Len(kak_hls) = 1
  /\ kak_hls[1].face = UnknownFace

\* places in evs of the scope-start events whose index is not in the table
OutOfRangeStarts(evs, table) ==
  {i \in 1..Len(evs) : evs[i].type = "HighlightStart" /\ evs[i].idx >= Len(table)}

\* C16: a scope-start event whose index is outside the face table makes
\* from_iter return a decoding error to its caller; the translation is not
\* aborted by the access.
C16_OutOfRangeIsReturnedError ==
  OutOfRangeStarts(hl_events, hl_names) # {} => pc = "error"

\* position a at or before position b, in (line, column) order
PosLeq(la, ca, lb, cb) == la < lb \/ (la = lb /\ ca <= cb)

C19_WitnessOverlap ==
  /\ Len(hl_events) = 2 /\ Len(kak_hls) = 2
  /\ hl_events[1] = Source(0, 2)
  /\ hl_events[2] = Source(1, 2)

\* the event handled by the step, when the step handles one
HandledEvent == hl_events'[Len(hl_events')]

\* C20: an empty Source event, whatever its offset, leaves the output list,
\* the face stack and the mapper unchanged; scope-start and scope-end events
\* leave the output list and the mapper unchanged.
C20_EventFrames ==
  [][hl_events' # hl_events =>
       /\ (HandledEvent.type = "Source" /\ HandledEvent.start = HandledEvent.end)
            => UNCHANGED <<kak_hls, faces, mapper>>
       /\ HandledEvent.type \in {"HighlightStart", "HighlightEnd"}
            => UNCHANGED <<kak_hls, mapper>>]_vars

\* an empty Source event at offset 1, then a range that still starts at the
\* first character
C20_Witness ==
  /\ Len(hl_events) = 2
  /\ hl_events[1] = Source(1, 1)
  /\ hl_events[2] = Source(0, 1)
  /\ Len(kak_hls) = 1
  /\ kak_hls[1].line_start = 1 /\ kak_hls[1].col_start = 1
  /\ mapper.byte_idx = 0

\* a scope-start then a range: the scope event did not move the cursor
C20_WitnessScope ==
  /\ Len(hl_events) = 2
  /\ hl_events[1].type = "HighlightStart"
  /\ faces # <<>>
  /\ Len(kak_hls) = 1

(***************************************************************************)
(* The mapper as a forward-only cursor.                                    *)
(***************************************************************************)
\* C17: over any sequence of advance calls the byte index and the line never
\* decrease, and advance(target) with target at or before the current byte
\* index leaves the whole mapper unchanged.
C17_NeverRewinds ==
  [][tils' # tils =>
       /\ mapper'.byte_idx >= mapper.byte_idx
       /\ mapper'.line >= mapper.line
       /\ tils'[Len(tils')] <= mapper.byte_idx => mapper' = mapper]_vars

\* a call with a target before the current byte index, after the cursor moved
C17_Witness ==
  /\ Len(tils) = 2
  /\ tils[2] < tils[1]
  /\ mapper.byte_idx = tils[1]
  /\ mapper.byte_idx > 0
  /\ mapper.chars # <<>>

\* a call with target 0 on a mapper that has not moved
C17_WitnessFresh ==
  /\ tils = <<0>>
  /\ mapper = MapperNew(CharIndices(source))
  /\ mapper.chars # <<>>

\* a target no character of the text reaches was asked for
Exhausted ==
  \E i \in 1..Len(tils) : \A k \in 1..Len(source) : Offset(source, k) < tils[i]

\* C18: when the stream is exhausted before the target is reached, the line
\* and column are those of the last character of the text, and stay so in
\* every later call; a mapper over the empty text stays at line 1, column 1.
C18_ExhaustedAtLastChar ==
  /\ (source # <<>> /\ Exhausted) =>
       /\ mapper.chars = <<>>
       /\ mapper.line = LineOf(source, Len(source))
       /\ mapper.col = ColOf(source, Len(source))
  /\ source = <<>> => (mapper.line = 1 /\ mapper.col = 1 /\ mapper.byte_idx = 0)

\* The same statement for texts that do not begin with '\n'.
C18_HoldsWithoutLeadingNewline ==
  (source # <<>> /\ source[1] # NL) => C18_ExhaustedAtLastChar

\* a stream exhausted by the first call, and two calls after it
C18_WitnessLaterCalls ==
  /\ Len(tils) = 3
  /\ source # <<>> /\ source[1] # NL
  /\ \A k \in 1..Len(source) : Offset(source, k) < tils[1]
  /\ tils[2] < tils[1]
  /\ NL \in {source[k] : k \in 1..Len(source)}

====
